---- MODULE Spec2Model ----
(***************************************************************************)
(* Keycloak OpenID Connect discovery client (src/lib/keycloak-discovery.ts) *)
(* and the discovery screen that drives it (routes/demo/start/auth/         *)
(* discovery), and the login screen (routes/demo/start/auth/).  JavaScript  *)
(* values are tagged records, strings are TLA+ strings, arrays are          *)
(* sequences.                                                               *)
(***************************************************************************)
EXTENDS Integers, Sequences, FiniteSets, TLC

VARIABLES
    doc,            \* the discovery document handed to the pure operations
    req,            \* the requirement handed to validateMetadataCapabilities
    vres,           \* outcome of the validateMetadataCapabilities call, or NotCalled
    eps,            \* outcome of the extractEndpoints call, or NotCalled
    metadata,       \* useState: the document the discovery screen holds, or Null
    loading,        \* useState: a fetch started from the screen has not settled
    error,          \* useState: the error message the screen shows, or Null
    selectedRealm,  \* useState: "master" or "famillion"
    customUrl,      \* useState: the text of the custom discovery URL input
    useCustomUrl,   \* useState: the "use custom discovery URL" checkbox
    calls,          \* the fetcher invocations made so far, in invocation order
    requests,       \* the outbound requests handed to the transport, in order
    settled,        \* the invocations that have settled, in settling order
    config,         \* the KeycloakConfig handed to buildDiscoveryUrl
    discoveryUrl,   \* outcome of the buildDiscoveryUrl call, or NotCalled
    authState,      \* useState: the AuthState of the login screen
    isLoading,      \* useState: a login submission has not settled
    logins,         \* the login submissions made so far, in order
    logouts         \* the handleLogout invocations made so far, in order

pureVars == <<doc, req, vres, eps>>
screenVars == <<metadata, loading, error>>
formVars == <<selectedRealm, customUrl, useCustomUrl>>
netVars == <<calls, requests, settled>>
urlVars == <<config, discoveryUrl>>
authVars == <<authState, isLoading, logins, logouts>>
vars == <<doc, req, vres, eps, metadata, loading, error, selectedRealm,
          customUrl, useCustomUrl, calls, requests, settled, config,
          discoveryUrl, authState, isLoading, logins, logouts>>

(***************************************************************************)
(* JavaScript values                                                        *)
(***************************************************************************)
Undefined == [type |-> "undefined"]
Null == [type |-> "null"]
Str(s) == [type |-> "string", val |-> s]
Arr(xs) == [type |-> "array", items |-> xs]

NotCalled == [kind |-> "not_called"]
Throw(name) == [kind |-> "throw", name |-> name]

\* Sequences over S of length at most n.
SeqsUpTo(S, n) == UNION {[1..k -> S] : k \in 0..n}

(***************************************************************************)
(* Bounds of the enumerated inputs                                          *)
(***************************************************************************)
\* Total number of requested values over the three requirement categories.
MaxReq == 3
\* Total number of supported values over the three *_supported lists.
MaxSup == 2

\* Capability names used as grant types, response types and scopes.
CapValues == {"code", "email"}

EndpointFields ==
    {"authorization_endpoint", "token_endpoint", "userinfo_endpoint",
     "end_session_endpoint", "jwks_uri", "introspection_endpoint",
     "revocation_endpoint", "registration_endpoint",
     "device_authorization_endpoint", "pushed_authorization_request_endpoint"}

SupportedFields ==
    {"grant_types_supported", "response_types_supported", "scopes_supported"}

DocFields == EndpointFields \cup SupportedFields

\* A parsed JSON object with none of the fields the consumers read.
EmptyDoc == [f \in DocFields |-> Undefined]

OptList(n) == {Undefined} \cup {Arr(xs) : xs \in SeqsUpTo(CapValues, n)}

ListLen(v) == IF v.type = "array" THEN Len(v.items) ELSE 0

\* Documents that differ in their *_supported lists (absent, empty or filled).
CapabilityDocs ==
    {[f \in DocFields |-> IF f \in SupportedFields THEN s[f] ELSE Undefined] :
        s \in {t \in [SupportedFields -> OptList(MaxSup)] :
                 ListLen(t["grant_types_supported"])
                 + ListLen(t["response_types_supported"])
                 + ListLen(t["scopes_supported"]) <= MaxSup}}

\* Requirements: each category independently absent, empty or filled.
Requirements ==
    {r \in [grantTypes : OptList(MaxReq), responseTypes : OptList(MaxReq),
            scopes : OptList(MaxReq)] :
        ListLen(r.grantTypes) + ListLen(r.responseTypes) + ListLen(r.scopes)
            <= MaxReq}

EmptyRequirement ==
    [grantTypes |-> Undefined, responseTypes |-> Undefined, scopes |-> Undefined]

\* The discovery screen as useState initialises it, with no fetch made.
\* useState<AuthState>({...}) and the state handleLogout sets.
ClearedAuthState ==
    [isAuthenticated |-> FALSE,
     accessToken |-> Null,
     refreshToken |-> Null,
     user |-> Null,
     error |-> Null]

\* The login screen as mounted.
AuthMounted ==
    /\ authState = ClearedAuthState
    /\ isLoading = FALSE
    /\ logins = <<>>
    /\ logouts = <<>>

ScreenMounted ==
    /\ AuthMounted
    /\ metadata = Null
    /\ loading = FALSE
    /\ error = Null
    /\ selectedRealm = "master"
    /\ customUrl = ""
    /\ useCustomUrl = FALSE
    /\ calls = <<>>
    /\ requests = <<>>
    /\ settled = <<>>
    /\ config = [baseUrl |-> "https://key.basthub.cloud", realm |-> "master"]
    /\ discoveryUrl = NotCalled

(***************************************************************************)
(* validateMetadataCapabilities                                             *)
(***************************************************************************)
\* A member test that starts at the second element (indexOf(v) > 0).
Includes_SkipsFirst(supported, v) ==
    \E i \in 2..Len(supported.items) : supported.items[i] = v

\* Array.prototype.includes on the *_supported value: a member test on an
\* array, a TypeError on undefined (property read of undefined).
Includes(supported, v) ==
    \E i \in 1..Len(supported.items) : supported.items[i] = v

\* The template literal `${label}: ${value}`.
MissingEntry(label, value) == label \o ": " \o value

\* The loop with missing.unshift(...) in place of missing.push(...).
RECURSIVE CheckLoop_Unshift(_, _, _, _)
CheckLoop_Unshift(supported, items, label, missing) ==
    IF items = <<>> THEN [kind |-> "return", missing |-> missing]
    ELSE IF supported.type # "array" THEN Throw("TypeError")
    ELSE CheckLoop_Unshift(supported, Tail(items), label,
                   IF \E i \in 1..Len(supported.items) :
                         supported.items[i] = Head(items)
                   THEN missing
                   ELSE <<label \o ": " \o Head(items)>> \o missing)

\* for (const x of requested) if (!supported.includes(x)) missing.push(...)
RECURSIVE CheckLoop(_, _, _, _)
CheckLoop(supported, items, label, missing) ==
    IF items = <<>> THEN [kind |-> "return", missing |-> missing]
    ELSE IF supported.type # "array" THEN Throw("TypeError")
    ELSE CheckLoop(supported, Tail(items), label,
                   IF Includes(supported, Head(items)) THEN missing
                   ELSE Append(missing, MissingEntry(label, Head(items))))

\* The category check reading the document's list before it looks at the
\* requirement (const n = supported.length).
CheckCategory_ReadsListFirst(supported, requested, label, missing) ==
    IF supported.type # "array" THEN Throw("TypeError")
    ELSE IF requested.type = "undefined"
    THEN [kind |-> "return", missing |-> missing]
    ELSE CheckLoop(supported, requested.items, label, missing)

\* if (requirements.<category>) { for ... }
CheckCategory(supported, requested, label, missing) ==
    IF requested.type = "undefined"
    THEN [kind |-> "return", missing |-> missing]
    ELSE CheckLoop(supported, requested.items, label, missing)

\* The result with valid: missing.length <= 1.
ValidationResult_OffByOne(missing) ==
    [kind |-> "return", valid |-> (Len(missing) <= 1), missing |-> missing]

\* return { valid: missing.length === 0, missing }
ValidationResult(missing) ==
    [kind |-> "return", valid |-> (Len(missing) = 0), missing |-> missing]

validateMetadataCapabilities(md, requirements) ==
    LET g == CheckCategory(md["grant_types_supported"],
                           requirements.grantTypes, "grant_type", <<>>)
        r == IF g.kind = "throw" THEN g
             ELSE CheckCategory(md["response_types_supported"],
                                requirements.responseTypes, "response_type",
                                g.missing)
        s == IF r.kind = "throw" THEN r
             ELSE CheckCategory(md["scopes_supported"],
                                requirements.scopes, "scope", r.missing)
    IN  IF s.kind = "throw" THEN s ELSE ValidationResult(s.missing)

(***************************************************************************)
(* Specification of the capability validator: the inputs are drawn in Init  *)
(* and the call is the only step.                                           *)
(***************************************************************************)
InitValidate ==
    /\ doc \in CapabilityDocs
    /\ req \in Requirements
    /\ vres = NotCalled
    /\ eps = NotCalled
    /\ ScreenMounted

CallValidate ==
    /\ vres = NotCalled
    /\ vres' = validateMetadataCapabilities(doc, req)
    /\ UNCHANGED <<authVars, doc, req, eps, screenVars, formVars, netVars, urlVars>>

NextValidate == CallValidate

SpecValidate == InitValidate /\ [][NextValidate]_vars

(***************************************************************************)
(* extractEndpoints                                                         *)
(***************************************************************************)
\* Values an endpoint field of a provider's document may hold.
EndpointValues == {Undefined, Str("https://a/x"), Str("https://b/y")}

\* Documents that differ in their endpoint fields (each absent or a URL).
EndpointDocs ==
    {[f \in DocFields |-> IF f \in EndpointFields THEN e[f] ELSE Undefined] :
        e \in [EndpointFields -> EndpointValues]}

\* The projection with jwks read from token_endpoint.
EndpointSet_JwksFromToken(md) ==
    [authorization |-> md["authorization_endpoint"],
     token |-> md["token_endpoint"],
     userinfo |-> md["userinfo_endpoint"],
     logout |-> md["end_session_endpoint"],
     jwks |-> md["token_endpoint"],
     introspection |-> md["introspection_endpoint"],
     revocation |-> md["revocation_endpoint"],
     registration |-> md["registration_endpoint"],
     deviceAuthorization |-> md["device_authorization_endpoint"],
     pushedAuthorization |-> md["pushed_authorization_request_endpoint"]]

\* The object literal returned by extractEndpoints: a property read of an
\* absent field yields undefined.
EndpointSet(md) ==
    [authorization |-> md["authorization_endpoint"],
     token |-> md["token_endpoint"],
     userinfo |-> md["userinfo_endpoint"],
     logout |-> md["end_session_endpoint"],
     jwks |-> md["jwks_uri"],
     introspection |-> md["introspection_endpoint"],
     revocation |-> md["revocation_endpoint"],
     registration |-> md["registration_endpoint"],
     deviceAuthorization |-> md["device_authorization_endpoint"],
     pushedAuthorization |-> md["pushed_authorization_request_endpoint"]]

extractEndpoints(md) ==
    [kind |-> "return", value |-> EndpointSet(md)]

(***************************************************************************)
(* Specification of the endpoint extractor                                  *)
(***************************************************************************)
InitExtract ==
    /\ doc \in EndpointDocs
    /\ req = EmptyRequirement
    /\ vres = NotCalled
    /\ eps = NotCalled
    /\ ScreenMounted

CallExtract ==
    /\ eps = NotCalled
    /\ eps' = extractEndpoints(doc)
    /\ UNCHANGED <<authVars, doc, req, vres, screenVars, formVars, netVars, urlVars>>

NextExtract == CallExtract

SpecExtract == InitExtract /\ [][NextExtract]_vars

(***************************************************************************)
(* Discovery URL, transport and the two fetchers                            *)
(***************************************************************************)
\* Fetcher invocations made from one mounted screen.
MaxCalls == 2

KEYCLOAK_CONFIGS ==
    [master |-> [baseUrl |-> "https://key.basthub.cloud", realm |-> "master"],
     famillion |-> [baseUrl |-> "https://key.basthub.cloud",
                    realm |-> "famillion"]]

\* The builder with a trailing slash of baseUrl removed first.
buildDiscoveryUrl_TrimsSlash(cfg) ==
    LET base == IF Len(cfg.baseUrl) > 0
                   /\ SubSeq(cfg.baseUrl, Len(cfg.baseUrl), Len(cfg.baseUrl)) = "/"
                THEN SubSeq(cfg.baseUrl, 1, Len(cfg.baseUrl) - 1)
                ELSE cfg.baseUrl
    IN  base \o "/realms/" \o cfg.realm \o "/.well-known/openid-configuration"

buildDiscoveryUrl(cfg) ==
    cfg.baseUrl \o "/realms/" \o cfg.realm
        \o "/.well-known/openid-configuration"

\* A number inside a template literal: its decimal digits.
DecimalDigits == <<"0", "1", "2", "3", "4", "5", "6", "7", "8", "9">>

RECURSIVE NumberToString(_)
NumberToString(n) ==
    IF n < 10 THEN DecimalDigits[n + 1]
    ELSE NumberToString(n \div 10) \o DecimalDigits[(n % 10) + 1]

\* Response.ok of the Fetch API: the status is in 200..299.
ResponseOk(status) == status >= 200 /\ status <= 299

Pending == [kind |-> "pending"]
ReadingBody == [kind |-> "reading_body"]
Resolved(value) == [kind |-> "resolved", value |-> value]
Rejected(name, message) ==
    [kind |-> "rejected", name |-> name, message |-> message]

\* fetch(discoveryUrl, { method: 'GET', headers: { Accept: ... } })
DiscoveryRequest(url) ==
    [method |-> "GET", url |-> url,
     headers |-> [Accept |-> "application/json"]]

\* What the transport may answer: a status line, then a body.
Statuses == {200, 299, 300, 401, 500}

StatusTextOf(status) ==
    CASE status = 200 -> "OK"
      [] status = 299 -> ""
      [] status = 300 -> "Multiple Choices"
      [] status = 401 -> "Unauthorized"
      [] status = 500 -> "Internal Server Error"

Responses == {[status |-> st, statusText |-> StatusTextOf(st)] : st \in Statuses}

NoResponse == [status |-> 0, statusText |-> ""]

\* A provider document with the lists and endpoints Keycloak publishes.
KeycloakDoc ==
    [f \in DocFields |->
        CASE f = "grant_types_supported" -> Arr(<<"code", "password">>)
          [] f = "response_types_supported" -> Arr(<<"code">>)
          [] f = "scopes_supported" -> Arr(<<"openid", "email">>)
          [] f = "token_endpoint" -> Str("https://a/token")
          [] f = "jwks_uri" -> Str("https://a/certs")
          [] OTHER -> Undefined]

ProviderDocs == {EmptyDoc, KeycloakDoc}

\* A body is JSON text of a document, text that is not JSON, or a stream
\* that breaks before its end.
Bodies ==
    {[kind |-> "json", value |-> d] : d \in ProviderDocs}
        \cup {[kind |-> "text", value |-> Str("<html>")],
              [kind |-> "aborted", value |-> Str("")]}

\* The rejection of fetch() itself, or of a body read (connection failure).
NetworkFailure == Rejected("TypeError", "Failed to fetch")

\* response.json() with a parse failure swallowed: .catch(() => ({})).
ResponseJson_EmptyOnParseError(body) ==
    IF body.kind = "json" THEN Resolved(body.value)
    ELSE IF body.kind = "aborted" THEN NetworkFailure
    ELSE Resolved(EmptyDoc)

\* response.json(): the parsed value, or a SyntaxError rejection.
ResponseJson(body) ==
    IF body.kind = "json" THEN Resolved(body.value)
    ELSE IF body.kind = "aborted" THEN NetworkFailure
    ELSE Rejected("SyntaxError", "Unexpected token < in JSON at position 0")

\* The fetcher calling fetch a second time for the same URL.
fetchDiscoveryMetadata_Requests_Twice(cfg) ==
    <<DiscoveryRequest(buildDiscoveryUrl(cfg)),
      DiscoveryRequest(buildDiscoveryUrl(cfg))>>

\* fetchDiscoveryMetadata up to its await: the requests it hands to fetch.
fetchDiscoveryMetadata_Requests(cfg) ==
    <<DiscoveryRequest(buildDiscoveryUrl(cfg))>>

\* fetchDiscoveryMetadata after its await, on the response's status line.
fetchDiscoveryMetadata_OnResponse(response) ==
    IF ~ResponseOk(response.status)
    THEN Rejected("Error",
                  "Failed to fetch discovery metadata: "
                      \o NumberToString(response.status) \o " "
                      \o response.statusText)
    ELSE ReadingBody

\* The fetcher asking for any media type.
fetchDiscoveryFromUrl_Requests_AnyAccept(url) ==
    <<[method |-> "GET", url |-> url, headers |-> [Accept |-> "*/*"]]>>

\* fetchDiscoveryFromUrl up to its await.
fetchDiscoveryFromUrl_Requests(url) ==
    <<DiscoveryRequest(url)>>

\* The fetcher without its if (!response.ok) check.
fetchDiscoveryFromUrl_OnResponse_NoCheck(response) == ReadingBody

\* fetchDiscoveryFromUrl after its await.
fetchDiscoveryFromUrl_OnResponse(response) ==
    IF ~ResponseOk(response.status)
    THEN Rejected("Error",
                  "Failed to fetch discovery metadata: "
                      \o NumberToString(response.status) \o " "
                      \o response.statusText)
    ELSE ReadingBody

OnResponse(call, response) ==
    IF call.fetcher = "fetchDiscoveryMetadata"
    THEN fetchDiscoveryMetadata_OnResponse(response)
    ELSE fetchDiscoveryFromUrl_OnResponse(response)

(***************************************************************************)
(* The discovery screen (DiscoveryComponent)                                *)
(***************************************************************************)
Realms == {"master", "famillion"}

\* Texts typed into the custom URL input.
CustomUrls == {"", "https://idp.example/d"}

\* if (useCustomUrl && customUrl) fetchDiscoveryFromUrl(customUrl)
\* else fetchDiscoveryMetadata(KEYCLOAK_CONFIGS[selectedRealm])
ChosenFetch ==
    IF useCustomUrl /\ customUrl # ""
    THEN [fetcher |-> "fetchDiscoveryFromUrl",
          requests |-> fetchDiscoveryFromUrl_Requests(customUrl)]
    ELSE [fetcher |-> "fetchDiscoveryMetadata",
          requests |-> fetchDiscoveryMetadata_Requests(
                           KEYCLOAK_CONFIGS[selectedRealm])]

InFlight == {i \in 1..Len(calls) : calls[i].pc # "settled"}

\* fetchMetadata without its setMetadata(null).
fetchMetadata_KeepsDocument ==
    LET id == Len(calls) + 1
        chosen == ChosenFetch
    IN  /\ Len(calls) < MaxCalls
        /\ loading' = TRUE
        /\ error' = Null
        /\ metadata' = metadata
        /\ calls' = Append(calls,
                      [fetcher |-> chosen.fetcher,
                       pc |-> "awaiting_response",
                       response |-> NoResponse,
                       body |-> "none",
                       outcome |-> Pending,
                       inFlightAtStart |-> InFlight])
        /\ requests' = requests \o
                         [k \in 1..Len(chosen.requests) |->
                             [call |-> id, request |-> chosen.requests[k]]]
        /\ UNCHANGED <<authVars, pureVars, urlVars, formVars, settled>>

\* fetchMetadata from its first line to the await of the fetcher.
fetchMetadata ==
    LET id == Len(calls) + 1
        chosen == ChosenFetch
    IN  /\ Len(calls) < MaxCalls
        /\ loading' = TRUE
        /\ error' = Null
        /\ metadata' = Null
        /\ calls' = Append(calls,
                      [fetcher |-> chosen.fetcher,
                       pc |-> "awaiting_response",
                       response |-> NoResponse,
                       body |-> "none",
                       outcome |-> Pending,
                       inFlightAtStart |-> InFlight])
        /\ requests' = requests \o
                         [k \in 1..Len(chosen.requests) |->
                             [call |-> id, request |-> chosen.requests[k]]]
        /\ UNCHANGED <<authVars, pureVars, urlVars, formVars, settled>>

\* catch: err instanceof Error ? err.message : 'Failed to fetch metadata'
ErrorMessage(reason) ==
    IF reason.name \in {"Error", "TypeError", "SyntaxError"}
    THEN reason.message
    ELSE "Failed to fetch metadata"

\* fetchMetadata after the await: setMetadata(data) on success.
MetadataAfter(outcome) ==
    IF outcome.kind = "resolved" THEN outcome.value ELSE metadata

\* The catch block showing a fixed text instead of the error's message.
ErrorAfter_FixedText(outcome) ==
    IF outcome.kind = "rejected" THEN Str("Failed to fetch metadata") ELSE error

\* fetchMetadata after the await: setError(...) in the catch block.
ErrorAfter(outcome) ==
    IF outcome.kind = "rejected" THEN Str(ErrorMessage(outcome)) ELSE error

\* fetchMetadata with setLoading(false) at the end of the try block instead
\* of in a finally block.
Settle_NoFinally(i, outcome, response, body) ==
    /\ calls' = [calls EXCEPT ![i].pc = "settled", ![i].outcome = outcome,
                              ![i].response = response, ![i].body = body]
    /\ settled' = Append(settled, i)
    /\ metadata' = MetadataAfter(outcome)
    /\ error' = ErrorAfter(outcome)
    /\ loading' = (IF outcome.kind = "resolved" THEN FALSE ELSE loading)
    /\ UNCHANGED <<authVars, pureVars, urlVars, formVars, requests>>

\* The fetcher's promise settles and fetchMetadata runs to its end
\* (try / catch / finally) in the same turn of the event loop.
Settle(i, outcome, response, body) ==
    /\ calls' = [calls EXCEPT ![i].pc = "settled", ![i].outcome = outcome,
                              ![i].response = response, ![i].body = body]
    /\ settled' = Append(settled, i)
    /\ metadata' = MetadataAfter(outcome)
    /\ error' = ErrorAfter(outcome)
    /\ loading' = FALSE
    /\ UNCHANGED <<authVars, pureVars, urlVars, formVars, requests>>

\* The import button with disabled={useCustomUrl && !customUrl}.
ImportDisabled_IgnoresLoading == useCustomUrl /\ customUrl = ""

\* The import button: disabled={loading || (useCustomUrl && !customUrl)}
ImportDisabled == loading \/ (useCustomUrl /\ customUrl = "")

ClickImport ==
    /\ ~ImportDisabled
    /\ fetchMetadata

\* onChange of the checkbox.
ToggleCustomUrl ==
    /\ useCustomUrl' = ~useCustomUrl
    /\ UNCHANGED <<authVars, pureVars, urlVars, screenVars, selectedRealm, customUrl, netVars>>

\* onChange of the URL input, rendered only while useCustomUrl is set.
TypeCustomUrl(u) ==
    /\ useCustomUrl
    /\ customUrl' = u
    /\ UNCHANGED <<authVars, pureVars, urlVars, screenVars, selectedRealm, useCustomUrl, netVars>>

\* onChange of the realm select, rendered only while useCustomUrl is not set.
SelectRealm(r) ==
    /\ ~useCustomUrl
    /\ selectedRealm' = r
    /\ UNCHANGED <<authVars, pureVars, urlVars, screenVars, customUrl, useCustomUrl, netVars>>

\* fetch() rejects: the fetcher rejects with the same reason.
TransportFails(i) ==
    /\ i \in 1..Len(calls)
    /\ calls[i].pc = "awaiting_response"
    /\ Settle(i, NetworkFailure, NoResponse, "none")

\* fetch() resolves with a response: the status check of the fetcher.
ResponseArrives(i, response) ==
    /\ i \in 1..Len(calls)
    /\ calls[i].pc = "awaiting_response"
    /\ LET r == OnResponse(calls[i], response)
       IN  IF r.kind = "reading_body"
           THEN /\ calls' = [calls EXCEPT ![i].pc = "reading_body",
                                          ![i].response = response]
                /\ UNCHANGED <<authVars, pureVars, urlVars, screenVars, formVars, requests,
                               settled>>
           ELSE Settle(i, r, response, "none")

\* response.json() settles.
BodyArrives(i, body) ==
    /\ i \in 1..Len(calls)
    /\ calls[i].pc = "reading_body"
    /\ Settle(i, ResponseJson(body), calls[i].response, body.kind)

Init ==
    /\ doc = EmptyDoc
    /\ req = EmptyRequirement
    /\ vres = NotCalled
    /\ eps = NotCalled
    /\ ScreenMounted

Transport ==
    \/ \E i \in 1..MaxCalls : TransportFails(i)
    \/ \E i \in 1..MaxCalls, response \in Responses : ResponseArrives(i, response)
    \/ \E i \in 1..MaxCalls, body \in Bodies : BodyArrives(i, body)

Controls ==
    \/ ToggleCustomUrl
    \/ \E u \in CustomUrls : TypeCustomUrl(u)
    \/ \E r \in Realms : SelectRealm(r)

\* The screen driven through its controls.
Next == ClickImport \/ Controls \/ Transport

Spec == Init /\ [][Next]_vars

\* fetchMetadata called whether or not an earlier call is still in flight:
\* the handler itself holds no guard, only the button's disabled attribute
\* keeps a second call from starting while loading is set.
InvokeFetchMetadata == fetchMetadata

NextOverlap == InvokeFetchMetadata \/ Controls \/ Transport

SpecOverlap == Init /\ [][NextOverlap]_vars

(***************************************************************************)
(* Specification of the discovery URL builder: the config is drawn in Init  *)
(* and the call is the only step.                                           *)
(***************************************************************************)
\* Number of pieces a drawn baseUrl or realm is put together from.
MaxUrlParts == 2

RECURSIVE Join(_)
Join(parts) == IF parts = <<>> THEN "" ELSE Head(parts) \o Join(Tail(parts))

\* Base URLs: empty, with and without a trailing slash, with a path.
BaseUrls ==
    {Join(p) : p \in SeqsUpTo({"https://k", "/", "x"}, MaxUrlParts)}
        \cup {KEYCLOAK_CONFIGS[r].baseUrl : r \in DOMAIN KEYCLOAK_CONFIGS}

\* Realm names: empty, plain, with a slash or a space.
RealmNames ==
    {Join(p) : p \in SeqsUpTo({"master", "/", "a b"}, MaxUrlParts)}
        \cup {KEYCLOAK_CONFIGS[r].realm : r \in DOMAIN KEYCLOAK_CONFIGS}

Configs == [baseUrl : BaseUrls, realm : RealmNames]

InitUrl ==
    /\ doc = EmptyDoc
    /\ req = EmptyRequirement
    /\ vres = NotCalled
    /\ eps = NotCalled
    /\ metadata = Null
    /\ loading = FALSE
    /\ error = Null
    /\ selectedRealm = "master"
    /\ customUrl = ""
    /\ useCustomUrl = FALSE
    /\ calls = <<>>
    /\ requests = <<>>
    /\ settled = <<>>
    /\ config \in Configs
    /\ discoveryUrl = NotCalled
    /\ AuthMounted

CallBuildDiscoveryUrl ==
    /\ discoveryUrl = NotCalled
    /\ discoveryUrl' = [kind |-> "return", value |-> buildDiscoveryUrl(config)]
    /\ UNCHANGED <<authVars, pureVars, screenVars, formVars, netVars, config>>

NextUrl == CallBuildDiscoveryUrl

SpecUrl == InitUrl /\ [][NextUrl]_vars

(***************************************************************************)
(* The two fetchers side by side: fetchDiscoveryMetadata(config) is call 1, *)
(* fetchDiscoveryFromUrl(buildDiscoveryUrl(config)) is call 2, and the      *)
(* transport gives both the same answer at every step.                      *)
(***************************************************************************)
InitEquiv == InitUrl

AwaitingCall(fetcher) ==
    [fetcher |-> fetcher,
     pc |-> "awaiting_response",
     response |-> NoResponse,
     body |-> "none",
     outcome |-> Pending,
     inFlightAtStart |-> {}]

TaggedRequests(id, reqs) ==
    [k \in 1..Len(reqs) |-> [call |-> id, request |-> reqs[k]]]

\* Both fetchers run up to their await of fetch(); discoveryUrl records the
\* argument handed to fetchDiscoveryFromUrl.
CallBothFetchers ==
    /\ calls = <<>>
    /\ discoveryUrl' = [kind |-> "return", value |-> buildDiscoveryUrl(config)]
    /\ calls' = <<AwaitingCall("fetchDiscoveryMetadata"),
                  AwaitingCall("fetchDiscoveryFromUrl")>>
    /\ requests' =
          TaggedRequests(1, fetchDiscoveryMetadata_Requests(config))
              \o TaggedRequests(2, fetchDiscoveryFromUrl_Requests(
                                       discoveryUrl'.value))
    /\ UNCHANGED <<authVars, pureVars, screenVars, formVars, settled, config>>

\* The ids of the calls that settle in a step from calls to next, in order.
NewlySettled(next) ==
    SelectSeq(<<1, 2>>,
              LAMBDA i : calls[i].pc # "settled" /\ next[i].pc = "settled")

\* fetch() rejects for both.
FetchRejectsBoth ==
    /\ Len(calls) = 2
    /\ \E i \in 1..2 : calls[i].pc = "awaiting_response"
    /\ LET next == [i \in 1..2 |->
                      IF calls[i].pc = "awaiting_response"
                      THEN [calls[i] EXCEPT !.pc = "settled",
                                            !.outcome = NetworkFailure]
                      ELSE calls[i]]
       IN  /\ calls' = next
           /\ settled' = settled \o NewlySettled(next)
    /\ UNCHANGED <<authVars, pureVars, screenVars, formVars, urlVars, requests>>

\* fetch() resolves with the same response for both: each fetcher's status
\* check.
ResponseArrivesBoth(response) ==
    /\ Len(calls) = 2
    /\ \E i \in 1..2 : calls[i].pc = "awaiting_response"
    /\ LET next == [i \in 1..2 |->
                      IF calls[i].pc # "awaiting_response" THEN calls[i]
                      ELSE LET r == OnResponse(calls[i], response)
                           IN  IF r.kind = "reading_body"
                               THEN [calls[i] EXCEPT !.pc = "reading_body",
                                                     !.response = response]
                               ELSE [calls[i] EXCEPT !.pc = "settled",
                                                     !.outcome = r,
                                                     !.response = response]]
       IN  /\ calls' = next
           /\ settled' = settled \o NewlySettled(next)
    /\ UNCHANGED <<authVars, pureVars, screenVars, formVars, urlVars, requests>>

\* response.json() settles the same way for both.
BodyArrivesBoth(body) ==
    /\ Len(calls) = 2
    /\ \E i \in 1..2 : calls[i].pc = "reading_body"
    /\ LET next == [i \in 1..2 |->
                      IF calls[i].pc = "reading_body"
                      THEN [calls[i] EXCEPT !.pc = "settled",
                                            !.outcome = ResponseJson(body),
                                            !.body = body.kind]
                      ELSE calls[i]]
       IN  /\ calls' = next
           /\ settled' = settled \o NewlySettled(next)
    /\ UNCHANGED <<authVars, pureVars, screenVars, formVars, urlVars, requests>>

NextEquiv ==
    \/ CallBothFetchers
    \/ FetchRejectsBoth
    \/ \E response \in Responses : ResponseArrivesBoth(response)
    \/ \E body \in Bodies : BodyArrivesBoth(body)

SpecEquiv == InitEquiv /\ [][NextEquiv]_vars

(***************************************************************************)
(* The login screen (AuthComponent) and its two server functions            *)
(***************************************************************************)
MaxLogins == 2
MaxLogouts == 2

\* if (x), x || y: null, undefined and "" are falsy.
Truthy(v) == v.type = "string" /\ v.val # ""

TokenFields ==
    {"access_token", "refresh_token", "error", "error_description"}

EmptyObject == [f \in TokenFields |-> Undefined]

\* Bodies of the token endpoint: token sets with and without a refresh
\* token, with a well-formed or an opaque access token, OAuth error objects,
\* the empty object, JSON null, and text that is not JSON.
TokenBodies ==
    {[kind |-> "json",
      value |-> [EmptyObject EXCEPT !["access_token"] = a,
                                    !["refresh_token"] = r]] :
         a \in {Str("h.alice.s"), Str("opaque"), Undefined},
         r \in {Str("rt1"), Str(""), Undefined}}
    \cup {[kind |-> "json",
           value |-> [EmptyObject EXCEPT !["error"] = Str("invalid_grant"),
                                         !["error_description"] = d]] :
              d \in {Str("Invalid user credentials"), Undefined}}
    \cup {[kind |-> "json", value |-> Null],
          [kind |-> "text", value |-> Str("<html>")]}

\* What can come back to a server function call: the provider answers with
\* a status and a body, the server's fetch rejects, or the call to the
\* server itself fails.
TokenAnswers ==
    {[kind |-> "response", status |-> st, body |-> b] :
        st \in {200, 401}, b \in TokenBodies}
    \cup {[kind |-> "fetch_rejects"], [kind |-> "rpc_fails"]}

LogoutAnswers ==
    {[kind |-> "response", status |-> st] : st \in {204, 400}}
    \cup {[kind |-> "fetch_rejects"], [kind |-> "rpc_fails"]}

RpcFailure == Rejected("Error", "Failed to fetch")

\* errorData.error_description || errorData.error ||
\* `Authentication failed (${response.status})`
AuthErrorMessage(errorData, status) ==
    IF Truthy(errorData["error_description"])
    THEN errorData["error_description"].val
    ELSE IF Truthy(errorData["error"])
    THEN errorData["error"].val
    ELSE "Authentication failed (" \o NumberToString(status) \o ")"

\* authenticateWithKeycloak as seen by its caller.
authenticateWithKeycloak(answer) ==
    IF answer.kind = "rpc_fails" THEN RpcFailure
    ELSE IF answer.kind = "fetch_rejects"
    THEN Rejected("TypeError", "fetch failed")
    ELSE IF ~ResponseOk(answer.status)
    THEN LET errorData == IF answer.body.kind = "json"
                          THEN answer.body.value
                          ELSE EmptyObject
         IN  IF errorData = Null
             THEN Rejected("TypeError",
                           "Cannot read properties of null (reading 'error_description')")
             ELSE Rejected("Error",
                           AuthErrorMessage(errorData, answer.status))
    ELSE IF answer.body.kind = "json"
    THEN Resolved(answer.body.value)
    ELSE Rejected("SyntaxError", "Unexpected token < in JSON at position 0")

\* logoutFromKeycloak as seen by its caller: { success: true } whatever the
\* status, { success: false } when fetch rejects.
logoutFromKeycloak(answer) ==
    IF answer.kind = "rpc_fails" THEN RpcFailure
    ELSE IF answer.kind = "fetch_rejects"
    THEN Resolved([success |-> FALSE])
    ELSE Resolved([success |-> TRUE])

\* decodeJwt: the payload's claims, or {} when the token cannot be decoded
\* (no second segment, not a string).
decodeJwt(token) ==
    IF token = Str("h.alice.s")
    THEN [email |-> Str("alice@example.org"),
          name |-> Str("Alice"),
          preferred_username |-> Str("alice")]
    ELSE [email |-> Undefined,
          name |-> Undefined,
          preferred_username |-> Undefined]

\* if (authState.isAuthenticated && authState.user) return <signed-in view>
SignedInView == authState.isAuthenticated /\ authState.user # Null

\* The login form is rendered whatever the auth state.
LoginFormShown_Always == TRUE

\* The login form is what the component renders after that early return.
LoginFormShown == ~SignedInView

\* onSubmit up to its await: the submit button is disabled while isLoading.
SubmitLogin ==
    /\ LoginFormShown
    /\ ~isLoading
    /\ Len(logins) < MaxLogins
    /\ isLoading' = TRUE
    /\ authState' = [authState EXCEPT !.error = Null]
    /\ logins' = Append(logins, [pc |-> "awaiting", outcome |-> "none"])
    /\ UNCHANGED <<pureVars, screenVars, formVars, netVars, urlVars, logouts>>

\* The try block after the await: setAuthState({ isAuthenticated: true, ... })
AuthStateAfterSuccess(tokenData) ==
    LET userInfo == decodeJwt(tokenData["access_token"])
    IN  [isAuthenticated |-> TRUE,
         accessToken |-> tokenData["access_token"],
         refreshToken |-> tokenData["refresh_token"],
         user |-> [email |-> userInfo.email,
                   name |-> userInfo.name,
                   preferred_username |-> userInfo.preferred_username],
         error |-> Null]

\* The catch block: setAuthState(prev => ({ ...prev, isAuthenticated: false,
\* error: ... }))
AuthStateAfterFailure(message) ==
    [authState EXCEPT !.isAuthenticated = FALSE, !.error = Str(message)]

\* authenticateWithKeycloak settles and onSubmit runs to its end.
LoginSettles(answer) ==
    /\ logins # <<>>
    /\ logins[Len(logins)].pc = "awaiting"
    /\ LET r == authenticateWithKeycloak(answer)
           ok == r.kind = "resolved" /\ r.value # Null
       IN  /\ authState' =
                 IF ok THEN AuthStateAfterSuccess(r.value)
                 ELSE IF r.kind = "resolved"
                 THEN AuthStateAfterFailure(
                          "Cannot read properties of null (reading 'access_token')")
                 ELSE AuthStateAfterFailure(r.message)
           /\ logins' = [logins EXCEPT
                           ![Len(logins)] =
                               [pc |-> "settled",
                                outcome |-> IF ok THEN "succeeded"
                                            ELSE "failed"]]
    /\ isLoading' = FALSE
    /\ UNCHANGED <<pureVars, screenVars, formVars, netVars, urlVars, logouts>>

NoLogoutRequest == [sent |-> FALSE]

\* The request logoutFromKeycloak posts to the provider.
LogoutRequest(refreshToken) ==
    [sent |-> TRUE,
     method |-> "POST",
     url |-> "https://key.basthub.cloud/realms/famillion/protocol/openid-connect/logout",
     client_id |-> "account",
     refresh_token |-> refreshToken]

\* handleLogout clearing the state only when the provider call succeeded.
AuthStateAfterLogout_OnlyOnSuccess(result) ==
    IF result.success THEN ClearedAuthState ELSE authState

\* handleLogout after its if: setAuthState({ isAuthenticated: false, ... })
AuthStateAfterLogout(result) == ClearedAuthState

\* handleLogout from the click on the logout button up to its await, or to
\* its end when no refresh token is held.
ClickLogout ==
    /\ SignedInView
    /\ Len(logouts) < MaxLogouts
    /\ IF Truthy(authState.refreshToken)
       THEN /\ logouts' = Append(logouts,
                              [pc |-> "awaiting",
                               request |-> LogoutRequest(authState.refreshToken),
                               result |-> "none"])
            /\ UNCHANGED authState
       ELSE /\ logouts' = Append(logouts,
                              [pc |-> "completed",
                               request |-> NoLogoutRequest,
                               result |-> "skipped"])
            /\ authState' = AuthStateAfterLogout([success |-> TRUE])
    /\ UNCHANGED <<pureVars, screenVars, formVars, netVars, urlVars, isLoading,
                   logins>>

\* logoutFromKeycloak settles and handleLogout runs to its end.
LogoutSettles(i, answer) ==
    /\ i \in 1..Len(logouts)
    /\ logouts[i].pc = "awaiting"
    /\ LET r == logoutFromKeycloak(answer)
       IN  IF r.kind = "resolved"
           THEN /\ authState' = AuthStateAfterLogout(r.value)
                /\ logouts' = [logouts EXCEPT
                                 ![i].pc = "completed",
                                 ![i].result =
                                     IF ~r.value.success THEN "transport_failed"
                                     ELSE IF ResponseOk(answer.status)
                                     THEN "succeeded"
                                     ELSE "error_status"]
           ELSE /\ UNCHANGED authState
                /\ logouts' = [logouts EXCEPT ![i].pc = "rejected",
                                              ![i].result = "call_failed"]
    /\ UNCHANGED <<pureVars, screenVars, formVars, netVars, urlVars, isLoading,
                   logins>>

InitAuth ==
    /\ doc = EmptyDoc
    /\ req = EmptyRequirement
    /\ vres = NotCalled
    /\ eps = NotCalled
    /\ ScreenMounted

NextAuth ==
    \/ SubmitLogin
    \/ \E answer \in TokenAnswers : LoginSettles(answer)
    \/ ClickLogout
    \/ \E i \in 1..MaxLogouts, answer \in LogoutAnswers : LogoutSettles(i, answer)

SpecAuth == InitAuth /\ [][NextAuth]_vars

(***************************************************************************)
(* Properties of validateMetadataCapabilities                               *)
(***************************************************************************)
Categories == {"grant_type", "response_type", "scope"}

SupportedOf(d, c) ==
    CASE c = "grant_type" -> d["grant_types_supported"]
      [] c = "response_type" -> d["response_types_supported"]
      [] c = "scope" -> d["scopes_supported"]

RequestedOf(r, c) ==
    CASE c = "grant_type" -> r.grantTypes
      [] c = "response_type" -> r.responseTypes
      [] c = "scope" -> r.scopes

ItemsOf(v) == IF v.type = "array" THEN v.items ELSE <<>>

Range(s) == {s[i] : i \in 1..Len(s)}

Count(s, x) == Cardinality({i \in 1..Len(s) : s[i] = x})

HasPrefix(e, p) == Len(e) >= Len(p) /\ SubSeq(e, 1, Len(p)) = p

\* The category an entry "<category>: <value>" names, and its value.
IsEntryOf(e, c) == HasPrefix(e, c \o ": ")
EntryValue(e, c) == SubSeq(e, Len(c) + 3, Len(e))

CategoryRank(e) ==
    CASE IsEntryOf(e, "grant_type") -> 1
      [] IsEntryOf(e, "response_type") -> 2
      [] IsEntryOf(e, "scope") -> 3
      [] OTHER -> 0

RECURSIVE IsSubsequence(_, _)
IsSubsequence(s, t) ==
    IF s = <<>> THEN TRUE
    ELSE IF t = <<>> THEN FALSE
    ELSE IF Head(s) = Head(t) THEN IsSubsequence(Tail(s), Tail(t))
    ELSE IsSubsequence(s, Tail(t))

ValuesOfCategory(missing, c) ==
    LET sel == SelectSeq(missing, LAMBDA e : IsEntryOf(e, c))
    IN  [i \in 1..Len(sel) |-> EntryValue(sel[i], c)]

\* C1 (as claimed): validateMetadataCapabilities never raises an error, for
\* every document (its *_supported lists possibly absent) and requirement.
C1_NeverFails == vres.kind # "throw"

\* Every *_supported list the requirement makes the call consult is there.
ConsultedListsPresent ==
    \A c \in Categories :
        ItemsOf(RequestedOf(req, c)) # <<>> => SupportedOf(doc, c).type = "array"

\* C2: the call returns a result whenever the document has the lists the
\* requirement consults, and a returned missing list holds the entry
\* "<category>: v" once per occurrence of v in the requirement's list of that
\* category when v is not a member of the document's list, never when v is a
\* member, and holds nothing else.
C2_MissingExactlyUnsupported ==
    /\ (vres # NotCalled /\ ConsultedListsPresent) => vres.kind = "return"
    /\ vres.kind = "return" =>
        /\ \A c \in Categories, v \in CapValues :
              Count(vres.missing, c \o ": " \o v) =
                 IF v \in Range(ItemsOf(SupportedOf(doc, c))) THEN 0
                 ELSE Count(ItemsOf(RequestedOf(req, c)), v)
        /\ \A i \in 1..Len(vres.missing) :
              \E c \in Categories, v \in CapValues :
                 vres.missing[i] = c \o ": " \o v

C2_Witness ==
    /\ vres.kind = "return"
    /\ \E c \in Categories, v, w \in CapValues :
          /\ v # w
          /\ Count(ItemsOf(RequestedOf(req, c)), v) = 2
          /\ v \notin Range(ItemsOf(SupportedOf(doc, c)))
          /\ Count(ItemsOf(RequestedOf(req, c)), w) = 1
          /\ w \in Range(ItemsOf(SupportedOf(doc, c)))
          /\ Count(vres.missing, c \o ": " \o v) = 2

\* C3: in a returned missing list grant_type entries come before
\* response_type entries, which come before scope entries, and the entries
\* of one category keep the order their values have in the requirement.
C3_MissingOrder ==
    vres.kind = "return" =>
        /\ \A i, j \in 1..Len(vres.missing) :
              i < j => /\ CategoryRank(vres.missing[i]) >= 1
                       /\ CategoryRank(vres.missing[i])
                            <= CategoryRank(vres.missing[j])
        /\ \A c \in Categories :
              IsSubsequence(ValuesOfCategory(vres.missing, c),
                            ItemsOf(RequestedOf(req, c)))

C3_Witness ==
    /\ vres.kind = "return"
    /\ Len(vres.missing) = 3
    /\ vres.missing[1] # vres.missing[2]
    /\ IsEntryOf(vres.missing[1], "grant_type")
    /\ IsEntryOf(vres.missing[2], "grant_type")
    /\ IsEntryOf(vres.missing[3], "scope")

\* C4: a returned result has valid = true exactly when missing is empty.
C4_ValidIffNothingMissing ==
    vres.kind = "return" => (vres.valid <=> vres.missing = <<>>)

C4_Witness ==
    /\ vres.kind = "return"
    /\ ~vres.valid
    /\ Len(vres.missing) = 1

\* C5: with the empty requirement the call returns {valid: true, missing: []}
\* whatever the document holds, and an absent requirement category never
\* contributes an entry to a returned missing list.
C5_EmptyRequirementValid ==
    /\ (req = EmptyRequirement /\ vres # NotCalled) =>
          vres = [kind |-> "return", valid |-> TRUE, missing |-> <<>>]
    /\ vres.kind = "return" =>
          \A c \in Categories :
             RequestedOf(req, c) = Undefined =>
                \A i \in 1..Len(vres.missing) : ~IsEntryOf(vres.missing[i], c)

C5_Witness ==
    /\ req = EmptyRequirement
    /\ vres.kind = "return"
    /\ doc["grant_types_supported"] = Undefined
    /\ doc["response_types_supported"] = Arr(<<>>)
    /\ doc["scopes_supported"] # Undefined
    /\ ListLen(doc["scopes_supported"]) > 0

(***************************************************************************)
(* Properties of extractEndpoints                                           *)
(***************************************************************************)
EndpointKeys ==
    {"authorization", "token", "userinfo", "logout", "jwks", "introspection",
     "revocation", "registration", "deviceAuthorization",
     "pushedAuthorization"}

ProjectedField(k) ==
    CASE k = "authorization" -> "authorization_endpoint"
      [] k = "token" -> "token_endpoint"
      [] k = "userinfo" -> "userinfo_endpoint"
      [] k = "logout" -> "end_session_endpoint"
      [] k = "jwks" -> "jwks_uri"
      [] k = "introspection" -> "introspection_endpoint"
      [] k = "revocation" -> "revocation_endpoint"
      [] k = "registration" -> "registration_endpoint"
      [] k = "deviceAuthorization" -> "device_authorization_endpoint"
      [] k = "pushedAuthorization" -> "pushed_authorization_request_endpoint"

\* C6: extractEndpoints returns, for every document, an object with exactly
\* the ten keys, each holding the value of the document field it projects
\* (undefined when the field is absent); it never raises an error.
C6_ExtractProjection ==
    eps # NotCalled =>
        /\ eps.kind = "return"
        /\ DOMAIN eps.value = EndpointKeys
        /\ \A k \in EndpointKeys : eps.value[k] = doc[ProjectedField(k)]

C6_Witness ==
    /\ eps.kind = "return"
    /\ doc["token_endpoint"] = Undefined
    /\ doc["authorization_endpoint"] = Str("https://a/x")
    /\ doc["jwks_uri"] = Str("https://b/y")
    /\ eps.value.token = Undefined
    /\ eps.value.jwks = Str("https://b/y")

(***************************************************************************)
(* Properties of the fetchers and of the discovery screen                   *)
(***************************************************************************)
Contains(str, sub) ==
    \/ Len(sub) = 0
    \/ \E k \in 0..(Len(str) - Len(sub)) : SubSeq(str, k + 1, k + Len(sub)) = sub

\* The status codes as they are written.
StatusLiteral(status) ==
    CASE status = 200 -> "200"
      [] status = 299 -> "299"
      [] status = 300 -> "300"
      [] status = 401 -> "401"
      [] status = 500 -> "500"

HasFailedStatus(c) ==
    /\ c.response # NoResponse
    /\ c.response.status \notin 200..299

\* C7: an invocation of either fetcher whose response has a status outside
\* 200..299 is rejected with an error whose message holds the status code as
\* written and the status text; no document reaches the caller, the screen
\* shows that message and holds no document.
C7_FailedStatusRejects ==
    \A i \in 1..Len(calls) :
        HasFailedStatus(calls[i]) =>
            /\ calls[i].pc = "settled"
            /\ calls[i].outcome.kind = "rejected"
            /\ Contains(calls[i].outcome.message,
                        StatusLiteral(calls[i].response.status))
            /\ Contains(calls[i].outcome.message, calls[i].response.statusText)
            /\ i = Len(calls) =>
                  /\ metadata = Null
                  /\ error = Str(calls[i].outcome.message)

C7_Witness ==
    \E i, j \in 1..Len(calls) :
        /\ calls[i].fetcher = "fetchDiscoveryMetadata"
        /\ calls[i].response.status = 401
        /\ calls[i].outcome.kind = "rejected"
        /\ calls[j].fetcher = "fetchDiscoveryFromUrl"
        /\ calls[j].response.status = 300
        /\ calls[j].outcome.kind = "rejected"
        /\ j = Len(calls)
        /\ error # Null

\* C8: an invocation whose response has a success status and a body that is
\* not valid JSON is rejected with an error, which the screen shows; it never
\* resolves with a document.
C8_InvalidJsonRejects ==
    \A i \in 1..Len(calls) :
        calls[i].body = "text" =>
            /\ calls[i].outcome.kind = "rejected"
            /\ i = Len(calls) =>
                  /\ metadata = Null
                  /\ error = Str(calls[i].outcome.message)

C8_Witness ==
    \E i \in 1..Len(calls) :
        /\ calls[i].body = "text"
        /\ calls[i].response.status = 200
        /\ calls[i].pc = "settled"
        /\ i = Len(calls)
        /\ error # Null

RequestsOf(i) == {k \in 1..Len(requests) : requests[k].call = i}

\* C9: in every state every invocation of a fetcher, pending or settled with
\* whatever outcome, has handed exactly one request to the transport.
C9_OneRequestPerInvocation ==
    /\ Len(requests) = Len(calls)
    /\ \A i \in 1..Len(calls) : Cardinality(RequestsOf(i)) = 1

C9_Witness ==
    /\ Len(settled) = 2
    /\ calls[1].fetcher = "fetchDiscoveryMetadata"
    /\ calls[1].outcome.kind = "rejected"
    /\ calls[2].outcome.kind = "resolved"
    /\ Len(requests) = 2

WellKnownSuffix == "/.well-known/openid-configuration"

\* C11: the URL buildDiscoveryUrl returns is baseUrl as given, then
\* "/realms/", then realm as given, then the well-known suffix, and nothing
\* else: neither input is trimmed, encoded or otherwise normalised.
C11_UrlIsPlainConcatenation ==
    discoveryUrl.kind = "return" =>
        LET u == discoveryUrl.value
            b == Len(config.baseUrl)
            r == Len(config.realm)
        IN  /\ Len(u) = b + 8 + r + Len(WellKnownSuffix)
            /\ SubSeq(u, 1, b) = config.baseUrl
            /\ SubSeq(u, b + 1, b + 8) = "/realms/"
            /\ SubSeq(u, b + 9, b + 8 + r) = config.realm
            /\ SubSeq(u, b + 9 + r, Len(u)) = WellKnownSuffix

C11_Witness ==
    /\ config.baseUrl = "https://k/"
    /\ config.realm = "master"
    /\ discoveryUrl.kind = "return"
    /\ discoveryUrl.value
          = "https://k//realms/master/.well-known/openid-configuration"

(***************************************************************************)
(* Properties of the discovery screen driven through its controls           *)
(***************************************************************************)
LastCallFailed ==
    /\ Len(calls) >= 1
    /\ calls[Len(calls)].pc = "settled"
    /\ calls[Len(calls)].outcome.kind = "rejected"

\* C12: once the latest fetch has failed (status, transport or parse
\* failure) the screen shows that failure's message, holds no document and
\* is not loading; the import button is enabled again unless the custom URL
\* is switched on and empty, so a new fetch can be started; and a request
\* is handed to the transport only by a click on the import button.
C12_FailureShownNoRetry ==
    /\ [](LastCallFailed =>
            /\ error = Str(calls[Len(calls)].outcome.message)
            /\ metadata = Null
            /\ loading = FALSE
            /\ ~(useCustomUrl /\ customUrl = "") => ~ImportDisabled
            /\ (Len(calls) < MaxCalls /\ ~(useCustomUrl /\ customUrl = ""))
                  => ENABLED ClickImport)
    /\ [][requests' # requests => ClickImport]_vars

C12_Witness ==
    /\ Len(calls) = 1
    /\ calls[1].pc = "settled"
    /\ calls[1].response.status = 500
    /\ error = Str("Failed to fetch discovery metadata: 500 Internal Server Error")
    /\ metadata = Null
    /\ ~loading
    /\ ~ImportDisabled

\* C13: while a fetch started from the screen is pending, metadata is null,
\* error is null and loading is true, and after the latest fetch has failed
\* metadata is still null: the document of an earlier fetch is gone from the
\* moment the later fetch starts.
C13_DocumentDiscardedAtStart ==
    /\ InFlight # {} => (metadata = Null /\ error = Null /\ loading = TRUE)
    /\ LastCallFailed => metadata = Null

C13_Witness ==
    /\ Len(calls) = 2
    /\ calls[1].outcome.kind = "resolved"
    /\ calls[1].outcome.value = KeycloakDoc
    /\ calls[2].pc = "awaiting_response"
    /\ metadata = Null

\* C16: metadata and error are never both non-null, and both are null
\* whenever loading is true.
C16_DocumentOrErrorNotBoth ==
    /\ ~(metadata # Null /\ error # Null)
    /\ loading => (metadata = Null /\ error = Null)

C16_Witness ==
    /\ Len(calls) = 2
    /\ calls[1].outcome.kind = "rejected"
    /\ calls[2].outcome.kind = "resolved"
    /\ metadata = KeycloakDoc
    /\ error = Null
    /\ ~loading

\* C17: loading is true exactly while a fetch started from the screen has
\* not settled: it is set when fetchMetadata starts and is false again as
\* soon as the fetcher has resolved or rejected, on every path.
C17_LoadingUntilSettled ==
    loading <=> (\E i \in 1..Len(calls) : calls[i].pc # "settled")

C17_Witness ==
    /\ Len(settled) = 2
    /\ calls[1].body = "text"
    /\ calls[2].outcome = NetworkFailure
    /\ calls[2].response = NoResponse
    /\ ~loading

(***************************************************************************)
(* Properties of the two fetchers side by side                              *)
(***************************************************************************)
RequestsOfCall(i) ==
    LET mine == SelectSeq(requests, LAMBDA e : e.call = i)
    IN  [k \in 1..Len(mine) |-> mine[k].request]

\* C15: for every config and every answer of the transport,
\* fetchDiscoveryMetadata(config) and
\* fetchDiscoveryFromUrl(buildDiscoveryUrl(config)) send the same single
\* request (GET, Accept: application/json, the URL buildDiscoveryUrl(config),
\* which is the literal argument of fetchDiscoveryFromUrl) and are at the
\* same point with the same outcome after every answer.
C15_FetchersEquivalent ==
    Len(calls) = 2 =>
        /\ RequestsOfCall(1) = RequestsOfCall(2)
        /\ RequestsOfCall(1) =
              <<[method |-> "GET",
                 url |-> buildDiscoveryUrl(config),
                 headers |-> [Accept |-> "application/json"]]>>
        /\ Len(RequestsOfCall(2)) = 1
        /\ RequestsOfCall(2)[1].url = discoveryUrl.value
        /\ calls[1].pc = calls[2].pc
        /\ calls[1].response = calls[2].response
        /\ calls[1].outcome = calls[2].outcome

C15_Witness ==
    /\ Len(calls) = 2
    /\ config = [baseUrl |-> "https://k/", realm |-> "a b"]
    /\ calls[1].outcome =
          Rejected("Error", "Failed to fetch discovery metadata: 401 Unauthorized")
    /\ calls[2].pc = "settled"
    /\ RequestsOfCall(2)[1].url =
          "https://k//realms/a b/.well-known/openid-configuration"

(***************************************************************************)
(* Properties of the login screen                                           *)
(***************************************************************************)
CompletesIn(i) ==
    /\ i \in 1..Len(logouts')
    /\ logouts'[i].pc = "completed"
    /\ (i > Len(logouts) \/ logouts[i].pc # "completed")

\* C18: a step in which a handleLogout invocation completes leaves the auth
\* state fully cleared, whether the provider logout succeeded, answered with
\* an error status, failed at transport level or was skipped; and a logout
\* request is sent only with a refresh token that is neither null nor
\* undefined, skipped invocations having sent none.
C18_LogoutAlwaysClears ==
    /\ [][(\E i \in 1..MaxLogouts : CompletesIn(i)) =>
             authState' = [isAuthenticated |-> FALSE,
                           accessToken |-> Null,
                           refreshToken |-> Null,
                           user |-> Null,
                           error |-> Null]]_vars
    /\ [](\A i \in 1..Len(logouts) :
             /\ logouts[i].request.sent =>
                   logouts[i].request.refresh_token \notin {Null, Undefined}
             /\ logouts[i].result = "skipped" => ~logouts[i].request.sent
             /\ logouts[i].pc = "completed" =>
                   logouts[i].result \in {"succeeded", "error_status",
                                          "transport_failed", "skipped"})

C18_Witness ==
    /\ Len(logouts) = 2
    /\ logouts[1].result = "transport_failed"
    /\ logouts[2].result = "skipped"
    /\ authState = ClearedAuthState

\* C19: while not authenticated no access token and no refresh token is
\* held; while authenticated a user object is held and no error is shown;
\* and when the latest login submission has failed the state is not
\* authenticated.
C19_TokensOnlyWhileAuthenticated ==
    /\ ~authState.isAuthenticated =>
          (authState.accessToken = Null /\ authState.refreshToken = Null)
    /\ authState.isAuthenticated =>
          (authState.user # Null /\ authState.error = Null)
    /\ (logins # <<>> /\ logins[Len(logins)].outcome = "failed") =>
          ~authState.isAuthenticated

C19_Witness ==
    /\ Len(logins) = 2
    /\ logins[1].outcome = "succeeded"
    /\ logins[2].outcome = "failed"
    /\ authState.error = Str("Invalid user credentials")
    /\ authState.accessToken = Null
    /\ ~isLoading

====
